---- MODULE Spec2Model ----
(***************************************************************************)
(* A model of git_2_markdown: the file enumerator and the tree renderer    *)
(* (modules/file_discovery), the document assembler                        *)
(* (modules/markdown_generator), the readers (modules/text_reader,         *)
(* modules/pdf_reader), the scoped repository acquisition                  *)
(* (modules/git_handler, modules/converter) and the exit codes of main.    *)
(* Strings are TLA+ strings; Len, \o, SubSeq and Tail act on them as on    *)
(* Python's str.  A path below the root is the sequence of its parts.      *)
(***************************************************************************)
EXTENDS Integers, Sequences, FiniteSets, TLC

VARIABLES
    tree,          \* file discovery: the files below root_path (a set of paths)
    exclude_dirs,  \* FileDiscovery.exclude_dirs
    stack,         \* the active _walk_directory generators: [dir, todo]
    files,         \* discover_files: the local list files
    readme_file,   \* discover_files: the local readme_file
    d_pc,          \* discover_files: "walk" while iterating, "done" once returned
    result,        \* the list discover_files returned
    prev_result,   \* the list the previous call on the same tree returned
    runs,          \* number of discover_files calls started on this tree
    repo_name,     \* MarkdownGenerator.repo_name
    include_tree,  \* MarkdownGenerator.include_tree
    include_toc,   \* MarkdownGenerator.include_toc
    g_tree,        \* MarkdownGenerator._tree
    g_files,       \* MarkdownGenerator._files
    max_chars,     \* the max_chars passed to generate_chunked
    document,      \* the string generate() returned
    chunks,        \* the list generate_chunked(max_chars) returned
    g_pc,          \* "build", then "generated", then "chunked"
    c_source,      \* convert: the kind of repo_source: "url", "local", "missing"
    c_pc,          \* convert: the position of the call
    c_is_temp,     \* GitHandler._is_temp
    c_temp,        \* the temporary directory of this call: "none", "present", "removed"
    c_exc,         \* the exception that is propagating, "none" when none is
    c_cleanups,    \* number of GitHandler.cleanup calls during this convert call
    c_leaked,      \* temporary directories earlier convert calls left on disk
    c_calls,       \* number of convert calls started
    include_pdf,   \* FileDiscovery.include_pdf
    max_depth,     \* generate_tree: max_depth, <<>> for None, <<n>> for n
    tree_lines,    \* generate_tree: the list lines, <<>> before the call
    c_caller,      \* who called convert: "main", "convert_to_file", "convert"
    c_output,      \* convert: output_path, "" for None
    c_split,       \* ConverterConfig.split_output
    c_written,     \* the paths this convert call has written
    c_generated,   \* GitToMarkdownConverter._generated_files, <<>> when unset
    c_ret,         \* what convert_to_file returned, <<>> before it returns
    m_exc,         \* main: the exception its try statement caught
    m_exit,        \* main: <<[code, report]>> once it returned code, <<>> before
    r_files,       \* convert: the enumerated files of the read loop
    r_pdf_reader,  \* GitToMarkdownConverter._pdf_reader: "none", "docling", "no_docling"
    r_max_size,    \* TextReader.max_file_size, <<>> for None, <<n>> for n
    r_added,       \* the FileContent records passed to generator.add_file
    r_pc,          \* the read loop: "loop", then "done"
    a_text,        \* the text given to _create_anchor
    a_once,        \* _create_anchor(text)
    a_twice,       \* _create_anchor(_create_anchor(text))
    a_pc,          \* "text", then "once", then "twice"
    x_name,        \* the dir_name given to _should_exclude_dir
    x_excluded,    \* what _should_exclude_dir returned
    x_pc           \* "name", then "tested"

dvars == <<tree, exclude_dirs, stack, files, readme_file, d_pc, result, prev_result, runs>>

gvars == <<repo_name, include_tree, include_toc, g_tree, g_files, max_chars, document, chunks, g_pc>>

cvars == <<c_source, c_pc, c_is_temp, c_temp, c_exc, c_cleanups, c_leaked, c_calls>>

tvars == <<include_pdf, max_depth, tree_lines>>

ovars == <<c_caller, c_output, c_split, c_written, c_generated, c_ret>>

mvars == <<m_exc, m_exit>>

rvars == <<r_files, r_pdf_reader, r_max_size, r_added, r_pc>>

avars == <<a_text, a_once, a_twice, a_pc>>

xvars == <<x_name, x_excluded, x_pc>>

vars == <<dvars, gvars, cvars, tvars, ovars, mvars, rvars, avars, xvars>>

(***************************************************************************)
(* str operations                                                          *)
(***************************************************************************)

\* The characters that occur in the modelled names, in code-point order.
AsciiOrder == "*-./ABCDEFGHIJKLMNOPQRSTUVWXYZ_abcdefghijklmnopqrstuvwxyz"

UpperCase == "ABCDEFGHIJKLMNOPQRSTUVWXYZ"

LowerCase == "abcdefghijklmnopqrstuvwxyz"

Digits == "0123456789"

CharAt(s, i) == SubSeq(s, i, i)

\* the position of every character of AsciiOrder
OrdTable ==
    [c \in {CharAt(AsciiOrder, i) : i \in 1..Len(AsciiOrder)} |->
        CHOOSE i \in 1..Len(AsciiOrder) : CharAt(AsciiOrder, i) = c]

Ord(c) == OrdTable[c]

\* the lower-case letter of every upper-case letter
LowerTable ==
    [c \in {CharAt(UpperCase, i) : i \in 1..Len(UpperCase)} |->
        CharAt(LowerCase, CHOOSE i \in 1..Len(UpperCase) : CharAt(UpperCase, i) = c)]

LowerChar(c) == IF c \in DOMAIN LowerTable THEN LowerTable[c] ELSE c

\* str.lower()
RECURSIVE Lower(_)
Lower(s) == IF Len(s) = 0 THEN "" ELSE LowerChar(CharAt(s, 1)) \o Lower(Tail(s))

\* str.startswith / str.endswith
StartsWith(s, p) == Len(p) <= Len(s) /\ SubSeq(s, 1, Len(p)) = p

EndsWith(s, p) == Len(p) <= Len(s) /\ SubSeq(s, Len(s) - Len(p) + 1, Len(s)) = p

\* c in s, for a single character c
HasChar(s, c) == \E i \in 1..Len(s) : CharAt(s, i) = c

\* a < b on str: lexicographic by code point
RECURSIVE StrLess(_, _)
StrLess(a, b) ==
    IF Len(b) = 0 THEN FALSE
    ELSE IF Len(a) = 0 THEN TRUE
    ELSE IF CharAt(a, 1) # CharAt(b, 1) THEN Ord(CharAt(a, 1)) < Ord(CharAt(b, 1))
    ELSE StrLess(Tail(a), Tail(b))

\* pathlib's PurePath.suffix of a name: from the last dot, unless the dot is
\* the first or the last character
Suffix(name) ==
    LET dots == {i \in 1..Len(name) : CharAt(name, i) = "."}
    IN  IF dots = {} THEN ""
        ELSE LET i == CHOOSE j \in dots : \A k \in dots : k <= j
             IN  IF 1 < i /\ i < Len(name) THEN SubSeq(name, i, Len(name)) ELSE ""

\* str(path) of a relative path: its parts joined by the separator
RECURSIVE RelStr(_)
RelStr(p) ==
    IF Len(p) = 0 THEN ""
    ELSE IF Len(p) = 1 THEN p[1]
    ELSE p[1] \o "/" \o RelStr(Tail(p))

\* Path.name
Name(p) == p[Len(p)]

\* sep.join(parts)
RECURSIVE Join(_, _)
Join(parts, sep) ==
    IF Len(parts) = 0 THEN ""
    ELSE IF Len(parts) = 1 THEN parts[1]
    ELSE parts[1] \o sep \o Join(Tail(parts), sep)

(***************************************************************************)
(* Rules (the literal default sets, restricted to the entries that the     *)
(* modelled trees exercise)                                                *)
(***************************************************************************)

DEFAULT_TEXT_EXTENSIONS == {".py", ".js", ".md", ".txt", ".rst"}

DEFAULT_INCLUDE_FILENAMES == {"Makefile", "LICENSE", "README"}

DEFAULT_EXCLUDE_DIRS == {".git", "node_modules", "build", "*.xcodeproj"}

\* FileDiscovery.__init__: exclude_dirs or DEFAULT_EXCLUDE_DIRS.copy(); the
\* argument None and the empty set are both falsy, {} stands for either
InitExcludeDirs(arg) == IF arg = {} THEN DEFAULT_EXCLUDE_DIRS ELSE arg

\* FileDiscovery.__init__: the copy of the defaults, with ".pdf" added when
\* include_pdf is set
text_extensions ==
    IF include_pdf THEN DEFAULT_TEXT_EXTENSIONS \cup {".pdf"} ELSE DEFAULT_TEXT_EXTENSIONS

include_filenames == DEFAULT_INCLUDE_FILENAMES

\* A test that lets a "*" anywhere in the pattern stand for any characters.
ShouldExcludeDir_Glob(dir_name) ==
    \/ dir_name \in exclude_dirs
    \/ \E pattern \in exclude_dirs : \E k \in 1..Len(pattern) :
          /\ CharAt(pattern, k) = "*"
          /\ Len(dir_name) >= Len(pattern) - 1
          /\ StartsWith(dir_name, SubSeq(pattern, 1, k - 1))
          /\ EndsWith(dir_name, SubSeq(pattern, k + 1, Len(pattern)))

\* FileDiscovery._should_exclude_dir
ShouldExcludeDir(dir_name) ==
    \/ dir_name \in exclude_dirs
    \/ \E pattern \in exclude_dirs :
          /\ HasChar(pattern, "*")
          /\ \/ StartsWith(pattern, "*") /\ EndsWith(dir_name, Tail(pattern))
             \/ EndsWith(pattern, "*")
                /\ StartsWith(dir_name, SubSeq(pattern, 1, Len(pattern) - 1))

\* FileDiscovery._is_text_file
IsTextFile(p) ==
    \/ Name(p) \in include_filenames
    \/ Lower(Suffix(Name(p))) \in text_extensions
    \/ Suffix(Name(p)) = "" /\ Name(p) \in include_filenames

\* FileDiscovery._is_pdf_file
IsPdfFile(p) == Lower(Suffix(Name(p))) = ".pdf"

(***************************************************************************)
(* The directory trees                                                     *)
(***************************************************************************)

MaxFiles == 3

MaxRuns == 2

\* The files a modelled tree may hold.
Pool ==
    { <<"README.md">>, <<"Readme.md">>, <<"README.txt">>, <<"README">>,
      <<"a.py">>, <<"A.py">>, <<"B.py">>, <<"x.bin">>,
      <<"a", "README.md">>, <<"a", "b.py">>, <<"a", "build", "o.py">>,
      <<"node_modules", "i.js">>, <<"p.xcodeproj", "q.py">> }

\* What the caller passes as exclude_dirs.
ExcludeArgs == {{}, {"a"}}

IsPrefix(d, p) == Len(d) <= Len(p) /\ SubSeq(p, 1, Len(d)) = d

\* directory.iterdir(): the names of the entries of directory d, in no
\* order; every modelled directory is readable and every entry is a regular
\* file or a directory
Entries(d) == {p[Len(d) + 1] : p \in {q \in tree : IsPrefix(d, q) /\ Len(q) > Len(d)}}

\* entry.is_file() / entry.is_dir()
IsFile(p) == p \in tree

IsDir(p) == \E q \in tree : IsPrefix(p, q) /\ Len(q) > Len(p)

(***************************************************************************)
(* FileDiscovery.discover_files and _walk_directory                        *)
(***************************************************************************)

NoPath == <<>>

Frame(d) == [dir |-> d, todo |-> Entries(d)]

Top == stack[Len(stack)]

Advance(n) == [stack EXCEPT ![Len(stack)].todo = @ \ {n}]

\* A walk that descends into every directory.
WalkDescends_Always(name) == TRUE

\* _walk_directory: the guard of the recursive call
WalkDescends(name) == ~ShouldExcludeDir(name)

\* discover_files: the test that sends a file to the README branch
IsRootReadme(p) == StartsWith(Lower(Name(p)), "readme") /\ Len(p) = 1

\* A loop that keeps the first readme-like file it meets.
PrefersReadme_FirstSeen(current, p) == current = NoPath

\* discover_files: whether the file replaces readme_file
PrefersReadme(current, p) == current = NoPath \/ Lower(Name(p)) = "readme.md"

\* A sort key that keeps the case of the path.
SortKey_CaseSensitive(p) == RelStr(p)

\* the sort key of discover_files
SortKey(p) == Lower(RelStr(p))

KeyLess(p, q) == StrLess(SortKey(p), SortKey(q))

\* list.sort(key=...) is stable: x, the last element, goes after every
\* element whose key is not greater
InsertSorted(sorted, x) ==
    LET k == Cardinality({i \in 1..Len(sorted) : ~KeyLess(x, sorted[i])})
    IN  SubSeq(sorted, 1, k) \o <<x>> \o SubSeq(sorted, k + 1, Len(sorted))

RECURSIVE SortFiles(_)
SortFiles(s) ==
    IF Len(s) = 0 THEN <<>>
    ELSE InsertSorted(SortFiles(SubSeq(s, 1, Len(s) - 1)), s[Len(s)])

\* A return that sorts the README with the other files.
FinalList_ReadmeSorted(fs, readme) ==
    IF readme # NoPath THEN SortFiles(Append(fs, readme)) ELSE SortFiles(fs)

\* files.sort(...); if readme_file: files.insert(0, readme_file)
FinalList(fs, readme) ==
    IF readme # NoPath THEN <<readme>> \o SortFiles(fs) ELSE SortFiles(fs)

\* convert_to_file has not returned
NoReturn == [kind |-> "none", paths |-> <<>>]

\* the converter after construction, before any call
CFresh ==
    /\ c_source = "none"
    /\ c_pc = "idle"
    /\ c_is_temp = FALSE
    /\ c_temp = "none"
    /\ c_exc = "none"
    /\ c_cleanups = 0
    /\ c_leaked = 0
    /\ c_calls = 0
    /\ c_caller = "none"
    /\ c_output = ""
    /\ c_written = {}
    /\ c_generated = <<>>
    /\ c_ret = NoReturn
    /\ m_exc = "none"
    /\ m_exit = <<>>

CIdle == CFresh /\ c_split = FALSE

\* the read loop of convert before it is entered
RIdle ==
    /\ r_files = <<>>
    /\ r_pdf_reader = "none"
    /\ r_max_size = <<>>
    /\ r_added = <<>>
    /\ r_pc = "idle"

\* _should_exclude_dir before it is called
XIdle ==
    /\ x_name = ""
    /\ x_excluded = FALSE
    /\ x_pc = "idle"

\* _create_anchor before it is called
AIdle ==
    /\ a_text = ""
    /\ a_once = ""
    /\ a_twice = ""
    /\ a_pc = "idle"

\* the generator before it is constructed
GIdle ==
    /\ repo_name = ""
    /\ include_tree = FALSE
    /\ include_toc = FALSE
    /\ g_tree = ""
    /\ g_files = <<>>
    /\ max_chars = 0
    /\ document = ""
    /\ chunks = <<>>
    /\ g_pc = "idle"

DInit ==
    /\ tree \in {t \in SUBSET Pool : Cardinality(t) <= MaxFiles}
    /\ exclude_dirs \in {InitExcludeDirs(arg) : arg \in ExcludeArgs}
    /\ stack = <<Frame(<<>>)>>
    /\ files = <<>>
    /\ readme_file = NoPath
    /\ d_pc = "walk"
    /\ result = <<>>
    /\ prev_result = <<>>
    /\ runs = 1
    /\ include_pdf = FALSE
    /\ max_depth = <<>>
    /\ tree_lines = <<>>
    /\ GIdle
    /\ CIdle
    /\ RIdle
    /\ AIdle /\ XIdle

\* _walk_directory: the entry is a directory that is not excluded
Descend ==
    /\ d_pc = "walk" /\ Len(stack) > 0
    /\ \E n \in Top.todo :
          LET p == Append(Top.dir, n)
          IN  /\ IsDir(p)
              /\ WalkDescends(n)
              /\ stack' = Append(Advance(n), Frame(p))
    /\ UNCHANGED <<tree, exclude_dirs, files, readme_file, d_pc, result, prev_result, runs, gvars, cvars, tvars, ovars, mvars, rvars, avars, xvars>>

\* _walk_directory: the entry is an excluded directory
SkipDir ==
    /\ d_pc = "walk" /\ Len(stack) > 0
    /\ \E n \in Top.todo :
          LET p == Append(Top.dir, n)
          IN  /\ IsDir(p)
              /\ ~WalkDescends(n)
              /\ stack' = Advance(n)
    /\ UNCHANGED <<tree, exclude_dirs, files, readme_file, d_pc, result, prev_result, runs, gvars, cvars, tvars, ovars, mvars, rvars, avars, xvars>>

\* _walk_directory yields a file; the body of the loop of discover_files
YieldFile ==
    /\ d_pc = "walk" /\ Len(stack) > 0
    /\ \E n \in Top.todo :
          LET p == Append(Top.dir, n)
          IN  /\ IsFile(p)
              /\ stack' = Advance(n)
              /\ IF IsRootReadme(p)
                 THEN IF PrefersReadme(readme_file, p)
                      THEN readme_file' = p /\ UNCHANGED files
                      ELSE files' = Append(files, p) /\ UNCHANGED readme_file
                 ELSE IF IsTextFile(p)
                      THEN files' = Append(files, p) /\ UNCHANGED readme_file
                      ELSE UNCHANGED <<files, readme_file>>
    /\ UNCHANGED <<tree, exclude_dirs, d_pc, result, prev_result, runs, gvars, cvars, tvars, ovars, mvars, rvars, avars, xvars>>

\* _walk_directory: the loop over a directory ends
ReturnDir ==
    /\ d_pc = "walk" /\ Len(stack) > 0
    /\ Top.todo = {}
    /\ stack' = SubSeq(stack, 1, Len(stack) - 1)
    /\ UNCHANGED <<tree, exclude_dirs, files, readme_file, d_pc, result, prev_result, runs, gvars, cvars, tvars, ovars, mvars, rvars, avars, xvars>>

\* discover_files: the walk is exhausted; sort, insert the README, return
Finish ==
    /\ d_pc = "walk" /\ Len(stack) = 0
    /\ result' = FinalList(files, readme_file)
    /\ d_pc' = "done"
    /\ UNCHANGED <<tree, exclude_dirs, stack, files, readme_file, prev_result, runs, gvars, cvars, tvars, ovars, mvars, rvars, avars, xvars>>

\* discover_files is called again on the same directory contents
CallAgain ==
    /\ d_pc = "done" /\ runs < MaxRuns
    /\ prev_result' = result
    /\ runs' = runs + 1
    /\ stack' = <<Frame(<<>>)>>
    /\ files' = <<>>
    /\ readme_file' = NoPath
    /\ d_pc' = "walk"
    /\ result' = <<>>
    /\ UNCHANGED <<tree, exclude_dirs, gvars, cvars, tvars, ovars, mvars, rvars, avars, xvars>>

\* one call of discover_files
DNext == Descend \/ SkipDir \/ YieldFile \/ ReturnDir \/ Finish

SpecDiscovery == DInit /\ [][DNext]_vars

\* repeated calls of discover_files on the same directory contents
DNextAgain == DNext \/ CallAgain

SpecRediscovery == DInit /\ [][DNextAgain]_vars

(***************************************************************************)
(* FileDiscovery.generate_tree and _build_tree                             *)
(***************************************************************************)

\* The files a tree rendered by generate_tree may hold.
TreePool ==
    { <<"README.md">>, <<"README.pdf">>, <<"a.py">>, <<"A.py">>, <<"x.bin">>,
      <<"a", "b.py">>, <<"a", "d.PDF">>, <<"a", "c", "e.py">>, <<"build", "o.py">> }

\* what max_depth may be: None or a depth
MaxDepths == {<<>>, <<1>>}

\* root_path.name
RootName == "repo"

\* The box-drawing connectors; a TLA+ string holds ASCII only, so "|-- "
\* stands for the tee, "+-- " for the corner and "|   " for the bar, each
\* of the length of the original.
Tee == "|-- "

Corner == "+-- "

Bar == "|   "

Blank == "    "

\* the sort key of _build_tree: (not e.is_dir(), e.name.lower())
TreeKeyLess(d, a, b) ==
    LET a_dir == IsDir(Append(d, a))
        b_dir == IsDir(Append(d, b))
    IN  \/ a_dir /\ ~b_dir
        \/ a_dir = b_dir /\ StrLess(Lower(a), Lower(b))

\* sorted(directory.iterdir(), key=...): iterdir gives the entries in any
\* order and the sort is stable, so entries with equal keys come out in any
\* order
RECURSIVE SortedOrders(_, _)
SortedOrders(d, names) ==
    IF names = {} THEN {<<>>}
    ELSE UNION { {<<x>> \o rest : rest \in SortedOrders(d, names \ {x})} :
                 x \in {y \in names : \A z \in names : ~TreeKeyLess(d, z, y)} }

\* _build_tree: the filter that drops the excluded directories
KeepEntries(d, entries) ==
    SelectSeq(entries, LAMBDA n : ~(IsDir(Append(d, n)) /\ ShouldExcludeDir(n)))

\* _build_tree: whether a file gets a line
ShowsFile(p) == IsTextFile(p) \/ (include_pdf /\ IsPdfFile(p))

\* _build_tree: the lists of lines the call may append, each line with the
\* path it was made for; EntryLines is the loop from the i-th entry on
RECURSIVE BuildTree(_, _, _), EntryLines(_, _, _, _, _)
BuildTree(directory, prefix, current_depth) ==
    IF max_depth # <<>> /\ current_depth >= max_depth[1] THEN {<<>>}
    ELSE UNION { EntryLines(directory, prefix, current_depth, KeepEntries(directory, order), 1) :
                 order \in SortedOrders(directory, Entries(directory)) }

EntryLines(directory, prefix, current_depth, entries, i) ==
    IF i > Len(entries) THEN {<<>>}
    ELSE LET entry == Append(directory, entries[i])
             is_last == i = Len(entries)
             connector == IF is_last THEN Corner ELSE Tee
             extension == IF is_last THEN Blank ELSE Bar
             line == [text |-> prefix \o connector \o entries[i] \o (IF IsDir(entry) THEN "/" ELSE ""),
                      path |-> entry, is_dir |-> IsDir(entry)]
             heads == IF IsDir(entry)
                      THEN {<<line>> \o below :
                               below \in BuildTree(entry, prefix \o extension, current_depth + 1)}
                      ELSE IF ShowsFile(entry) THEN {<<line>>} ELSE {<<>>}
         IN  UNION { {head \o rest :
                        rest \in EntryLines(directory, prefix, current_depth, entries, i + 1)} :
                     head \in heads }

\* generate_tree: the lists lines it may build
TreeLines ==
    {<<[text |-> RootName \o "/", path |-> <<>>, is_dir |-> TRUE]>> \o below :
        below \in BuildTree(<<>>, "", 0)}

\* generate_tree: the string it returns for the list lines
TreeText(lines) == Join([i \in 1..Len(lines) |-> lines[i].text], "\n")

\* convert constructs the FileDiscovery with the default exclude_dirs
TInit ==
    /\ tree \in {t \in SUBSET TreePool : Cardinality(t) <= MaxFiles}
    /\ exclude_dirs = InitExcludeDirs({})
    /\ include_pdf \in BOOLEAN
    /\ max_depth \in MaxDepths
    /\ tree_lines = <<>>
    /\ stack = <<>>
    /\ files = <<>>
    /\ readme_file = NoPath
    /\ d_pc = "tree"
    /\ result = <<>>
    /\ prev_result = <<>>
    /\ runs = 0
    /\ GIdle /\ CIdle /\ RIdle /\ AIdle /\ XIdle

\* convert: tree = discovery.generate_tree(max_depth), then discover_files
\* is entered
GenerateTree ==
    /\ d_pc = "tree"
    /\ tree_lines' \in TreeLines
    /\ stack' = <<Frame(<<>>)>>
    /\ runs' = 1
    /\ d_pc' = "walk"
    /\ UNCHANGED <<tree, exclude_dirs, files, readme_file, result, prev_result, include_pdf, max_depth, gvars, cvars, ovars, mvars, rvars, avars, xvars>>

TNext == GenerateTree \/ DNext

SpecTree == TInit /\ [][TNext]_vars

\* the enumerator before it is constructed
DIdle ==
    /\ tree = {}
    /\ exclude_dirs = {}
    /\ stack = <<>>
    /\ files = <<>>
    /\ readme_file = NoPath
    /\ d_pc = "idle"
    /\ result = <<>>
    /\ prev_result = <<>>
    /\ runs = 0
    /\ include_pdf = FALSE
    /\ max_depth = <<>>
    /\ tree_lines = <<>>

(***************************************************************************)
(* MarkdownGenerator                                                       *)
(***************************************************************************)

MaxAdded == 3

DEFAULT_MAX_CHARS == 100000

\* The values of max_chars the model passes to generate_chunked.
MaxCharsChoices == {200, 250, 300, 400, DEFAULT_MAX_CHARS}

\* s repeated n times
RECURSIVE Repeat(_, _)
Repeat(s, n) == IF n = 0 THEN "" ELSE s \o Repeat(s, n - 1)

\* The FileContent records a caller may add.
FileContents ==
    { [name |-> "a.py", relative_path |-> "a.py", content |-> "x = 1",
       language |-> "python", is_pdf |-> FALSE],
      [name |-> "b.md", relative_path |-> "d/b.md", content |-> "# T",
       language |-> "markdown", is_pdf |-> FALSE],
      [name |-> "LICENSE", relative_path |-> "LICENSE",
       content |-> "Permission is hereby granted, free of charge, to any person",
       language |-> "", is_pdf |-> FALSE],
      [name |-> "c.pdf", relative_path |-> "c.pdf", content |-> "[Failed to read PDF file]",
       language |-> "markdown", is_pdf |-> TRUE],
      [name |-> "big.txt", relative_path |-> "big.txt",
       content |-> Repeat("0123456789abcdefghijklmno\n", 8),
       language |-> "text", is_pdf |-> FALSE] }

\* The strings a caller may pass to set_tree.
TreeTexts == {"r/\n|-- a.py\n+-- d/"}

\* The backquote character: a TLA+ string cannot hold it, "~" stands for it.
Backquote == "~"

\* the code fence
Fence == Backquote \o Backquote \o Backquote

\* str.isalnum() of one character
IsAlnum(c) ==
    \E i \in 1..Len(LowerCase) :
        \/ CharAt(LowerCase, i) = c
        \/ CharAt(UpperCase, i) = c
        \/ (i <= Len(Digits) /\ CharAt(Digits, i) = c)

\* "".join(c if c.isalnum() or c == "-" else "-" for c in anchor)
RECURSIVE Hyphenate(_)
Hyphenate(s) ==
    IF Len(s) = 0 THEN ""
    ELSE (IF IsAlnum(CharAt(s, 1)) \/ CharAt(s, 1) = "-" THEN CharAt(s, 1) ELSE "-")
         \o Hyphenate(Tail(s))

\* "--" in s
HasDoubleHyphen(s) == \E i \in 1..(Len(s) - 1) : SubSeq(s, i, i + 1) = "--"

\* s.replace("--", "-"): the occurrences from the left, not overlapping
RECURSIVE ReplaceDoubleHyphen(_)
ReplaceDoubleHyphen(s) ==
    IF Len(s) < 2 THEN s
    ELSE IF SubSeq(s, 1, 2) = "--" THEN "-" \o ReplaceDoubleHyphen(SubSeq(s, 3, Len(s)))
    ELSE CharAt(s, 1) \o ReplaceDoubleHyphen(Tail(s))

\* A single replace in the place of the loop.
CollapseHyphens_OnePass(s) == ReplaceDoubleHyphen(s)

\* while "--" in anchor: anchor = anchor.replace("--", "-")
RECURSIVE CollapseHyphens(_)
CollapseHyphens(s) ==
    IF HasDoubleHyphen(s) THEN CollapseHyphens(ReplaceDoubleHyphen(s)) ELSE s

\* s.strip("-")
RECURSIVE StripHyphens(_)
StripHyphens(s) ==
    IF Len(s) = 0 THEN s
    ELSE IF CharAt(s, 1) = "-" THEN StripHyphens(Tail(s))
    ELSE IF CharAt(s, Len(s)) = "-" THEN StripHyphens(SubSeq(s, 1, Len(s) - 1))
    ELSE s

\* MarkdownGenerator._create_anchor
CreateAnchor(text) == StripHyphens(CollapseHyphens(Hyphenate(Lower(text))))

\* MarkdownGenerator._generate_title
GenerateTitle == "# Repository: " \o repo_name

\* MarkdownGenerator._generate_tree_section
GenerateTreeSection == Join(<<"## Repository Structure", "", Fence, g_tree, Fence>>, "\n")

\* MarkdownGenerator._generate_toc
GenerateToc ==
    Join(<<"## Table of Contents", "">>
         \o [i \in 1..Len(g_files) |->
                "- [" \o g_files[i].relative_path \o "](#"
                \o CreateAnchor(g_files[i].relative_path) \o ")"],
         "\n")

\* MarkdownGenerator._format_file
FormatFile(fc) ==
    Join(<<"### " \o fc.name, "**Path:** " \o Backquote \o fc.relative_path \o Backquote>>
         \o (IF fc.is_pdf THEN <<"**Type:** PDF (extracted text)">> ELSE <<>>)
         \o <<"", Fence \o fc.language, fc.content, Fence>>,
         "\n")

\* the list lines of _generate_files_section after i files
RECURSIVE FilesSectionLines(_)
FilesSectionLines(i) ==
    IF i = 0 THEN <<"## File Contents", "">>
    ELSE FilesSectionLines(i - 1) \o <<FormatFile(g_files[i]), "">>

\* MarkdownGenerator._generate_files_section
GenerateFilesSection == Join(FilesSectionLines(Len(g_files)), "\n")

\* MarkdownGenerator.generate
Generate ==
    Join(<<GenerateTitle>>
         \o (IF include_tree /\ g_tree # "" THEN <<GenerateTreeSection>> ELSE <<>>)
         \o (IF include_toc THEN <<GenerateToc>> ELSE <<>>)
         \o <<GenerateFilesSection>>,
         "\n\n")

\* generate_chunked: header_parts joined
Header ==
    Join(<<GenerateTitle>>
         \o (IF include_tree /\ g_tree # "" THEN <<GenerateTreeSection>> ELSE <<>>)
         \o (IF include_toc THEN <<GenerateToc>> ELSE <<>>),
         "\n\n")

\* A header that lacks the newline that ends the heading line.
HeaderWithSection_NoNewline == Header \o "\n\n## File Contents"

\* generate_chunked: header_with_section
HeaderWithSection == Header \o "\n\n## File Contents\n"

\* generate_chunked: continuation_header
ContinuationHeader ==
    "# Repository: " \o repo_name \o " (continued)\n\n## File Contents (continued)\n"

\* generate_chunked: file_markdown
FileMarkdown(fc) == FormatFile(fc) \o "\n"

\* A test that looks at the size of the current chunk alone.
StartsNewChunk_IgnoresFile(size, file_size, parts) == size > max_chars /\ Len(parts) > 0

\* generate_chunked: the test that closes the current chunk
StartsNewChunk(size, file_size, parts) == size + file_size > max_chars /\ Len(parts) > 0

\* A loop that saves every chunk it closes.
SavesChunk_Always(parts, size) == TRUE

\* A loop that never saves the chunk it closes.
SavesChunk_Never(parts, size) == FALSE

\* generate_chunked: whether the closed chunk is appended to chunks
SavesChunk(parts, size) == Len(parts) > 1 \/ size > Len(HeaderWithSection)

\* generate_chunked: the loop over self._files from file i on, and the final
\* append; closed holds the part lists of the chunks closed so far
RECURSIVE ChunkLoop(_, _, _, _)
ChunkLoop(i, closed, parts, size) ==
    IF i > Len(g_files)
    THEN IF Len(parts) > 0 THEN Append(closed, parts) ELSE closed
    ELSE LET file_markdown == FileMarkdown(g_files[i])
             file_size == Len(file_markdown)
         IN  IF StartsNewChunk(size, file_size, parts)
             THEN ChunkLoop(i + 1,
                            IF SavesChunk(parts, size) THEN Append(closed, parts) ELSE closed,
                            <<ContinuationHeader, file_markdown>>,
                            Len(ContinuationHeader) + file_size)
             ELSE ChunkLoop(i + 1, closed, Append(parts, file_markdown), size + file_size)

\* MarkdownGenerator.generate_chunked
GenerateChunked ==
    LET closed == ChunkLoop(1, <<>>, <<HeaderWithSection>>, Len(HeaderWithSection))
    IN  [k \in 1..Len(closed) |-> Join(closed[k], "\n")]

\* MarkdownGenerator.__init__
GInit ==
    /\ repo_name = "r"
    /\ include_tree \in BOOLEAN
    /\ include_toc \in BOOLEAN
    /\ g_tree = ""
    /\ g_files = <<>>
    /\ max_chars \in MaxCharsChoices
    /\ document = ""
    /\ chunks = <<>>
    /\ g_pc = "build"
    /\ DIdle
    /\ CIdle
    /\ RIdle
    /\ AIdle /\ XIdle

\* MarkdownGenerator.set_tree
SetTree ==
    /\ g_pc = "build"
    /\ g_files = <<>>
    /\ \E t \in TreeTexts \ {g_tree} : g_tree' = t
    /\ UNCHANGED <<repo_name, include_tree, include_toc, g_files, max_chars, document, chunks, g_pc, dvars, cvars, tvars, ovars, mvars, rvars, avars, xvars>>

\* MarkdownGenerator.add_file, called as convert calls it: once for each
\* path of the list discover_files returned
AddFile ==
    /\ g_pc = "build"
    /\ Len(g_files) < MaxAdded
    /\ \E fc \in FileContents \ {g_files[i] : i \in 1..Len(g_files)} :
          g_files' = Append(g_files, fc)
    /\ UNCHANGED <<repo_name, include_tree, include_toc, g_tree, max_chars, document, chunks, g_pc, dvars, cvars, tvars, ovars, mvars, rvars, avars, xvars>>

\* MarkdownGenerator.generate
DoGenerate ==
    /\ g_pc = "build"
    /\ document' = Generate
    /\ g_pc' = "generated"
    /\ UNCHANGED <<repo_name, include_tree, include_toc, g_tree, g_files, max_chars, chunks, dvars, cvars, tvars, ovars, mvars, rvars, avars, xvars>>

\* MarkdownGenerator.generate_chunked
DoGenerateChunked ==
    /\ g_pc = "generated"
    /\ chunks' = GenerateChunked
    /\ g_pc' = "chunked"
    /\ UNCHANGED <<repo_name, include_tree, include_toc, g_tree, g_files, max_chars, document, dvars, cvars, tvars, ovars, mvars, rvars, avars, xvars>>

GNext == SetTree \/ AddFile \/ DoGenerate \/ DoGenerateChunked

SpecGenerator == GInit /\ [][GNext]_vars

(***************************************************************************)
(* MarkdownGenerator._create_anchor applied to its own result              *)
(***************************************************************************)

MaxText == 5

\* the characters of the texts: a lower-case letter, an upper-case letter,
\* the hyphen, a character that is neither alphanumeric nor the hyphen
TextChars == {"a", "B", "-", "."}

\* the strings over TextChars of length n
RECURSIVE TextsOfLen(_)
TextsOfLen(n) ==
    IF n = 0 THEN {""} ELSE {t \o c : t \in TextsOfLen(n - 1), c \in TextChars}

Texts == UNION {TextsOfLen(n) : n \in 0..MaxText}

AInit ==
    /\ a_text \in Texts
    /\ a_once = ""
    /\ a_twice = ""
    /\ a_pc = "text"
    /\ DIdle /\ GIdle /\ CIdle /\ RIdle /\ XIdle

\* anchor = _create_anchor(text)
Anchor ==
    /\ a_pc = "text"
    /\ a_once' = CreateAnchor(a_text)
    /\ a_pc' = "once"
    /\ UNCHANGED <<a_text, a_twice, dvars, gvars, cvars, tvars, ovars, mvars, rvars, xvars>>

\* _create_anchor(anchor)
AnchorAgain ==
    /\ a_pc = "once"
    /\ a_twice' = CreateAnchor(a_once)
    /\ a_pc' = "twice"
    /\ UNCHANGED <<a_text, a_once, dvars, gvars, cvars, tvars, ovars, mvars, rvars, xvars>>

ANext == Anchor \/ AnchorAgain

SpecAnchor == AInit /\ [][ANext]_vars

(***************************************************************************)
(* FileDiscovery._should_exclude_dir on a name                             *)
(***************************************************************************)

MaxPatterns == 2

\* the entries the caller may put in exclude_dirs
ExcludePatterns == {"build", "*.xcodeproj", "tmp*", "a*b", "*"}

\* the directory names tested
DirNames ==
    { "build", "Build", "p.xcodeproj", ".xcodeproj", "xcodeproj", "tmp", "tmp_x",
      "xtmp", "a*b", "acb", "ab", "node_modules", "src" }

\* FileDiscovery is constructed with the caller's exclude_dirs
XInit ==
    /\ exclude_dirs \in {InitExcludeDirs(arg) :
                            arg \in {e \in SUBSET ExcludePatterns : Cardinality(e) <= MaxPatterns}}
    /\ x_name \in DirNames
    /\ x_excluded = FALSE
    /\ x_pc = "name"
    /\ tree = {}
    /\ stack = <<>>
    /\ files = <<>>
    /\ readme_file = NoPath
    /\ d_pc = "idle"
    /\ result = <<>>
    /\ prev_result = <<>>
    /\ runs = 0
    /\ include_pdf = FALSE
    /\ max_depth = <<>>
    /\ tree_lines = <<>>
    /\ GIdle /\ CIdle /\ RIdle /\ AIdle

\* _should_exclude_dir(dir_name)
TestExclude ==
    /\ x_pc = "name"
    /\ x_excluded' = ShouldExcludeDir(x_name)
    /\ x_pc' = "tested"
    /\ UNCHANGED <<x_name, dvars, gvars, cvars, tvars, ovars, mvars, rvars, avars>>

XNext == TestExclude

SpecExclude == XInit /\ [][XNext]_vars

(***************************************************************************)
(* GitToMarkdownConverter.convert and the GitHandler it acquires           *)
(***************************************************************************)

MaxCalls == 3

\* what repo_source may be: a remote URL, an existing local directory, a
\* local path that does not exist
Sources == {"url", "local", "missing"}

\* the steps of the body of the with statement of convert, in order
BodySteps == <<"discover", "read", "generate", "write">>

\* the exceptions a step may raise besides the ones the code names
OtherExceptions == {"KeyboardInterrupt", "Exception"}

StepIndex(pc) == CHOOSE i \in 1..Len(BodySteps) : BodySteps[i] = pc

InBody == \E i \in 1..Len(BodySteps) : BodySteps[i] = c_pc

\* GitHandler.cleanup: the state of the temporary directory after it
Cleanup(temp) == IF c_is_temp /\ temp = "present" THEN "removed" ELSE temp

\* a converter is constructed with its configuration
CInit == CFresh /\ c_split \in BOOLEAN /\ DIdle /\ GIdle /\ RIdle /\ AIdle /\ XIdle

\* the callers of convert: main, convert_to_file, a direct call
Callers == {"main", "convert_to_file", "convert"}

\* the output_path the caller passes; "" stands for None, which
\* convert_to_file never passes
OutputPaths(caller) == IF caller = "convert_to_file" THEN {"out.md"} ELSE {"", "out.md"}

\* convert is called: GitHandler(repo_source) is constructed and entered;
\* main runs once per process, on a converter it has just constructed
CallConvert ==
    /\ c_pc \in {"idle", "returned", "raised"}
    /\ c_calls < MaxCalls
    /\ c_caller # "main"
    /\ \E src \in Sources : c_source' = src
    /\ \E who \in Callers :
          /\ who = "main" => c_calls = 0
          /\ c_caller' = who
          /\ \E out \in OutputPaths(who) : c_output' = out
    /\ c_calls' = c_calls + 1
    /\ c_leaked' = IF c_temp = "present" THEN c_leaked + 1 ELSE c_leaked
    /\ c_is_temp' = FALSE
    /\ c_temp' = "none"
    /\ c_exc' = "none"
    /\ c_cleanups' = 0
    /\ c_written' = {}
    /\ c_ret' = NoReturn
    /\ c_pc' = "load"
    /\ UNCHANGED <<c_split, c_generated, mvars, dvars, gvars, tvars, rvars, avars, xvars>>

\* _load_local_repository: the path is a directory
LoadLocal ==
    /\ c_pc = "load" /\ c_source = "local"
    /\ c_pc' = BodySteps[1]
    /\ UNCHANGED <<c_source, c_is_temp, c_temp, c_exc, c_cleanups, c_leaked, c_calls, dvars, gvars, tvars, ovars, mvars, rvars, avars, xvars>>

\* _load_local_repository: the path does not exist; __enter__ raises
LoadLocalInvalid ==
    /\ c_pc = "load" /\ c_source = "missing"
    /\ c_exc' = "ValueError"
    /\ c_pc' = "raised"
    /\ UNCHANGED <<c_source, c_is_temp, c_temp, c_cleanups, c_leaked, c_calls, dvars, gvars, tvars, ovars, mvars, rvars, avars, xvars>>

\* _clone_repository: tempfile.mkdtemp, _is_temp = True
Mkdtemp ==
    /\ c_pc = "load" /\ c_source = "url"
    /\ c_temp' = "present"
    /\ c_is_temp' = TRUE
    /\ c_pc' = "cloning"
    /\ UNCHANGED <<c_source, c_exc, c_cleanups, c_leaked, c_calls, dvars, gvars, tvars, ovars, mvars, rvars, avars, xvars>>

\* _clone_repository: Repo.clone_from returns
CloneOk ==
    /\ c_pc = "cloning"
    /\ c_pc' = BodySteps[1]
    /\ UNCHANGED <<c_source, c_is_temp, c_temp, c_exc, c_cleanups, c_leaked, c_calls, dvars, gvars, tvars, ovars, mvars, rvars, avars, xvars>>

\* _clone_repository: Repo.clone_from raises GitCommandError; the handler
\* cleans up and raises ValueError out of __enter__
CloneGitCommandError ==
    /\ c_pc = "cloning"
    /\ c_temp' = Cleanup(c_temp)
    /\ c_cleanups' = c_cleanups + 1
    /\ c_exc' = "ValueError"
    /\ c_pc' = "raised"
    /\ UNCHANGED <<c_source, c_is_temp, c_leaked, c_calls, dvars, gvars, tvars, ovars, mvars, rvars, avars, xvars>>

\* _clone_repository: Repo.clone_from raises anything else (the user
\* interrupts it, the disk is full); no except clause matches and, __enter__
\* not having returned, __exit__ is not called
CloneOtherError ==
    /\ c_pc = "cloning"
    /\ \E e \in OtherExceptions : c_exc' = e
    /\ c_pc' = "raised"
    /\ UNCHANGED <<c_source, c_is_temp, c_temp, c_cleanups, c_leaked, c_calls, dvars, gvars, tvars, ovars, mvars, rvars, avars, xvars>>

\* a step of the body of the with statement before the output completes
StepOk ==
    /\ InBody /\ c_pc # "write"
    /\ c_pc' = BodySteps[StepIndex(c_pc) + 1]
    /\ UNCHANGED <<c_source, c_is_temp, c_temp, c_exc, c_cleanups, c_leaked, c_calls, dvars, gvars, tvars, ovars, mvars, rvars, avars, xvars>>

\* a step of the body of the with statement raises
StepRaises ==
    /\ InBody
    /\ \E e \in OtherExceptions : c_exc' = e
    /\ c_pc' = "exit"
    /\ UNCHANGED <<c_source, c_is_temp, c_temp, c_cleanups, c_leaked, c_calls, dvars, gvars, tvars, ovars, mvars, rvars, avars, xvars>>

\* the decimal digits of a natural number, as str(n) gives them
RECURSIVE IntStr(_)
IntStr(n) == IF n < 10 THEN CharAt(Digits, n + 1)
             ELSE IntStr(n \div 10) \o CharAt(Digits, (n % 10) + 1)

MaxChunks == 3

\* generate_chunked_to_files: the path of part i of output_path
PartPath(out, i) ==
    LET suffix == Suffix(out)
        stem == SubSeq(out, 1, Len(out) - Len(suffix))
    IN stem \o "_part" \o IntStr(i) \o suffix

\* generate_chunked_to_files: the paths written for n chunks
ChunkPaths(out, n) == IF n = 1 THEN <<out>> ELSE [i \in 1..n |-> PartPath(out, i)]

\* convert: output_path is None, nothing is written
WriteNone ==
    /\ c_pc = "write" /\ c_output = ""
    /\ c_pc' = "exit"
    /\ UNCHANGED <<c_source, c_is_temp, c_temp, c_exc, c_cleanups, c_leaked, c_calls, dvars, gvars, tvars, ovars, mvars, rvars, avars, xvars>>

\* convert: generate_to_file(output_path), _generated_files = [output_path]
WriteFile ==
    /\ c_pc = "write" /\ c_output # "" /\ ~c_split
    /\ c_written' = c_written \cup {c_output}
    /\ c_generated' = <<c_output>>
    /\ c_pc' = "exit"
    /\ UNCHANGED <<c_source, c_is_temp, c_temp, c_exc, c_cleanups, c_leaked, c_calls, c_caller, c_output, c_split, c_ret, dvars, gvars, tvars, mvars, rvars, avars, xvars>>

\* convert: generate_chunked_to_files writes the n chunks generate_chunked
\* returned and returns their paths, which become _generated_files
WriteChunks ==
    /\ c_pc = "write" /\ c_output # "" /\ c_split
    /\ \E n \in 1..MaxChunks :
          /\ c_written' = c_written \cup {ChunkPaths(c_output, n)[i] : i \in 1..n}
          /\ c_generated' = ChunkPaths(c_output, n)
    /\ c_pc' = "exit"
    /\ UNCHANGED <<c_source, c_is_temp, c_temp, c_exc, c_cleanups, c_leaked, c_calls, c_caller, c_output, c_split, c_ret, dvars, gvars, tvars, mvars, rvars, avars, xvars>>

\* convert: generate_chunked_to_files has written k of its n parts when
\* write_text raises; _generated_files is not assigned
WriteChunksRaises ==
    /\ c_pc = "write" /\ c_output # "" /\ c_split
    /\ \E n \in 2..MaxChunks : \E k \in 1..(n - 1) :
          c_written' = c_written \cup {ChunkPaths(c_output, n)[i] : i \in 1..k}
    /\ c_exc' = "Exception"
    /\ c_pc' = "exit"
    /\ UNCHANGED <<c_source, c_is_temp, c_temp, c_cleanups, c_leaked, c_calls, c_caller, c_output, c_split, c_generated, c_ret, dvars, gvars, tvars, mvars, rvars, avars, xvars>>

\* GitHandler.__exit__: cleanup, then the return or the exception goes on
ExitHandler ==
    /\ c_pc = "exit"
    /\ c_temp' = Cleanup(c_temp)
    /\ c_cleanups' = c_cleanups + 1
    /\ c_pc' = IF c_exc = "none" THEN "returned" ELSE "raised"
    /\ UNCHANGED <<c_source, c_is_temp, c_exc, c_leaked, c_calls, dvars, gvars, tvars, ovars, mvars, rvars, avars, xvars>>

\* get_generated_files: getattr(self, "_generated_files", [])
GetGeneratedFiles == c_generated

\* convert_to_file: convert has returned, return output_path
ConvertToFileReturns ==
    /\ c_pc = "returned" /\ c_caller = "convert_to_file"
    /\ c_ret = NoReturn
    /\ c_ret' = [kind |-> "path", paths |-> <<c_output>>]
    /\ UNCHANGED <<cvars, c_caller, c_output, c_split, c_written, c_generated, dvars, gvars, tvars, mvars, rvars, avars, xvars>>

\* main: the exit code of the except clause that matches exc, 0 when the
\* try statement completes
ExitCode_InterruptAsError(exc) ==
    IF exc = "none" THEN 0 ELSE 1

ExitCode(exc) ==
    IF exc = "none" THEN 0
    ELSE IF exc = "ValueError" THEN 1
    ELSE IF exc = "KeyboardInterrupt" THEN 130
    ELSE 1

\* main: the start of the line the matching except clause prints
Report(exc) ==
    IF exc = "none" THEN ""
    ELSE IF exc = "ValueError" THEN "Error: "
    ELSE IF exc = "KeyboardInterrupt" THEN "\nOperation cancelled."
    ELSE "Unexpected error: "

\* main: what a run that ends with exc returns and prints
MainOutcome(exc) == [code |-> ExitCode(exc), report |-> Report(exc)]

\* main: convert returned; the output is reported, during which the user
\* may interrupt or print may fail
MainReports ==
    /\ c_pc = "returned" /\ c_caller = "main"
    /\ m_exit = <<>>
    /\ \E e \in {"none"} \cup OtherExceptions :
          /\ m_exc' = e
          /\ m_exit' = <<MainOutcome(e)>>
    /\ UNCHANGED <<cvars, ovars, dvars, gvars, tvars, rvars, avars, xvars>>

\* main: convert raised; the matching except clause returns
MainExcept ==
    /\ c_pc = "raised" /\ c_caller = "main"
    /\ m_exit = <<>>
    /\ m_exc' = c_exc
    /\ m_exit' = <<MainOutcome(c_exc)>>
    /\ UNCHANGED <<cvars, ovars, dvars, gvars, tvars, rvars, avars, xvars>>

CNext ==
    \/ CallConvert \/ LoadLocal \/ LoadLocalInvalid \/ Mkdtemp \/ CloneOk
    \/ CloneGitCommandError \/ CloneOtherError \/ StepOk \/ StepRaises
    \/ WriteNone \/ WriteFile \/ WriteChunks \/ WriteChunksRaises
    \/ ExitHandler \/ ConvertToFileReturns \/ MainReports \/ MainExcept

SpecConvert == CInit /\ [][CNext]_vars

(***************************************************************************)
(* The read loop of convert: TextReader.read_file, PDFReader.read_pdf_safe *)
(***************************************************************************)

MaxRead == 2

ENCODING_FALLBACKS == <<"utf-8", "utf-8-sig", "latin-1", "cp1252", "ascii">>

\* The enumerated files as the loop finds them on disk: exists, is_file,
\* stat_ok and size are what exists(), is_file() and stat() give, read is
\* "OSError" when reading raises it, encodings are the encodings that
\* decode the bytes to text, pdf is "fails" when Docling raises on the file
\* and pdf_text is what it extracts otherwise.
ReadPool ==
    { [name |-> "a.py", exists |-> TRUE, is_file |-> TRUE, stat_ok |-> TRUE, size |-> 8,
       read |-> "ok", encodings |-> {"utf-8", "utf-8-sig", "latin-1", "cp1252", "ascii"},
       text |-> "print(1)", pdf |-> "fails", pdf_text |-> ""],
      [name |-> "big.txt", exists |-> TRUE, is_file |-> TRUE, stat_ok |-> TRUE, size |-> 50,
       read |-> "ok", encodings |-> {"utf-8", "utf-8-sig", "latin-1", "cp1252", "ascii"},
       text |-> Repeat("0123456789", 5), pdf |-> "fails", pdf_text |-> ""],
      [name |-> "gone.py", exists |-> FALSE, is_file |-> FALSE, stat_ok |-> FALSE, size |-> 0,
       read |-> "OSError", encodings |-> {}, text |-> "", pdf |-> "fails", pdf_text |-> ""],
      [name |-> "dir.md", exists |-> TRUE, is_file |-> FALSE, stat_ok |-> TRUE, size |-> 0,
       read |-> "OSError", encodings |-> {}, text |-> "", pdf |-> "fails", pdf_text |-> ""],
      [name |-> "lock.md", exists |-> TRUE, is_file |-> TRUE, stat_ok |-> TRUE, size |-> 4,
       read |-> "OSError", encodings |-> {}, text |-> "", pdf |-> "fails", pdf_text |-> ""],
      [name |-> "nostat.js", exists |-> TRUE, is_file |-> TRUE, stat_ok |-> FALSE, size |-> 0,
       read |-> "ok", encodings |-> {"utf-8", "utf-8-sig", "latin-1", "cp1252", "ascii"},
       text |-> "v=1", pdf |-> "fails", pdf_text |-> ""],
      [name |-> "bin.txt", exists |-> TRUE, is_file |-> TRUE, stat_ok |-> TRUE, size |-> 3,
       read |-> "ok", encodings |-> {"latin-1", "cp1252"},
       text |-> "b.n", pdf |-> "fails", pdf_text |-> ""],
      [name |-> "doc.pdf", exists |-> TRUE, is_file |-> TRUE, stat_ok |-> TRUE, size |-> 9,
       read |-> "ok", encodings |-> {"latin-1"},
       text |-> "%PDF-1.4.", pdf |-> "ok", pdf_text |-> "# Doc"],
      [name |-> "BIG.PDF", exists |-> TRUE, is_file |-> TRUE, stat_ok |-> TRUE, size |-> 50,
       read |-> "ok", encodings |-> {"latin-1"},
       text |-> Repeat("%PDF-1.4.\n", 5), pdf |-> "ok", pdf_text |-> "# Big"],
      [name |-> "bad.pdf", exists |-> TRUE, is_file |-> TRUE, stat_ok |-> TRUE, size |-> 7,
       read |-> "ok", encodings |-> {"latin-1"},
       text |-> "garbage", pdf |-> "fails", pdf_text |-> ""] }

\* what ConverterConfig.max_file_size may be: None or a number of bytes
MaxFileSizes == {<<>>, <<10>>}

\* what _pdf_reader may be: None, a PDFReader with Docling installed, a
\* PDFReader without it
PdfReaders == {"none", "docling", "no_docling"}

\* str(e) of the OSError reading raises
OSErrorText == "[Errno 13] Permission denied"

\* _get_converter: the message of the PDFReaderError it raises, which the
\* except Exception clause of read_pdf wraps
DoclingMissingText == "Docling is not installed. Install with: uv pip install 'git-2-markdown[pdf]'"

\* str(e) of the exception Docling raises on a file it cannot convert
DoclingErrorText == "not a PDF"

\* Optional[str]: <<>> is None, <<s>> is the string s
None == <<>>

Some(s) == <<s>>

\* read_file: the loop over ENCODING_FALLBACKS, from the i-th on, then the
\* read_bytes().decode(errors="replace") after it
RECURSIVE TryEncodings(_, _)
TryEncodings(f, i) ==
    IF f.read = "OSError" THEN "[Error reading file: " \o OSErrorText \o "]"
    ELSE IF i > Len(ENCODING_FALLBACKS) THEN f.text
    ELSE IF ENCODING_FALLBACKS[i] \in f.encodings THEN f.text
    ELSE TryEncodings(f, i + 1)

\* TextReader.read_file
ReadFile(f, max_file_size) ==
    IF ~f.exists THEN None
    ELSE IF ~f.is_file THEN None
    ELSE IF max_file_size # <<>> /\ ~f.stat_ok THEN None
    ELSE IF max_file_size # <<>> /\ f.size > max_file_size[1]
         THEN Some("[File too large: " \o IntStr(f.size) \o " bytes]")
    ELSE Some(TryEncodings(f, 1))

\* PDFReader.read_pdf: exc is the exception it raises, val what it returns
ReadPdf(f, reader) ==
    IF ~f.exists THEN [exc |-> "none", msg |-> "", val |-> None]
    ELSE IF ~f.is_file THEN [exc |-> "none", msg |-> "", val |-> None]
    ELSE IF Lower(Suffix(f.name)) # ".pdf" THEN [exc |-> "none", msg |-> "", val |-> None]
    ELSE IF reader = "no_docling"
         THEN [exc |-> "PDFReaderError", val |-> None,
               msg |-> "Failed to extract PDF content: " \o DoclingMissingText]
    ELSE IF f.pdf = "fails"
         THEN [exc |-> "PDFReaderError", val |-> None,
               msg |-> "Failed to extract PDF content: " \o DoclingErrorText]
    ELSE [exc |-> "none", msg |-> "", val |-> Some(f.pdf_text)]

\* PDFReader.read_pdf_safe
ReadPdfSafe(f, reader) ==
    LET r == ReadPdf(f, reader)
    IN IF r.exc = "PDFReaderError" THEN "[PDF extraction error: " \o r.msg \o "]"
       ELSE IF r.exc # "none" THEN "[Unexpected error reading PDF: " \o r.msg \o "]"
       ELSE IF r.val = None THEN "[Failed to read PDF file]"
       ELSE r.val[1]

\* TextReader.get_language_identifier, for the names of ReadPool
GetLanguageIdentifier(name) ==
    LET suffix == Lower(Suffix(name))
    IN IF name = "Makefile" THEN "makefile"
       ELSE IF suffix = ".py" THEN "python"
       ELSE IF suffix = ".js" THEN "javascript"
       ELSE IF suffix = ".md" THEN "markdown"
       ELSE IF suffix = ".txt" THEN "text"
       ELSE ""

\* convert: content = read_file(...); if content is None: content = ...
OrFailed_Empty(content) ==
    IF content = None THEN "" ELSE content[1]

OrFailed(content) ==
    IF content = None THEN "[Failed to read file]" ELSE content[1]

\* convert: the body of the loop over files, the FileContent it builds
ReadOne(f) ==
    LET is_pdf == Lower(Suffix(f.name)) = ".pdf"
    IN IF is_pdf /\ r_pdf_reader # "none"
       THEN [name |-> f.name, relative_path |-> f.name,
             content |-> ReadPdfSafe(f, r_pdf_reader),
             language |-> "markdown", is_pdf |-> is_pdf]
       ELSE [name |-> f.name, relative_path |-> f.name,
             content |-> OrFailed(ReadFile(f, r_max_size)),
             language |-> GetLanguageIdentifier(f.name), is_pdf |-> is_pdf]

\* the lists of distinct files discover_files may have returned
FileLists ==
    UNION { {l \in [1..n -> ReadPool] : \A i, j \in 1..n : l[i] = l[j] => i = j} : n \in 0..MaxRead }

RInit ==
    /\ r_files \in FileLists
    /\ r_pdf_reader \in PdfReaders
    /\ r_max_size \in MaxFileSizes
    /\ r_added = <<>>
    /\ r_pc = "loop"
    /\ DIdle /\ GIdle /\ CIdle /\ AIdle /\ XIdle

\* one iteration of the loop: read the next file, generator.add_file
ReadNext ==
    /\ r_pc = "loop"
    /\ Len(r_added) < Len(r_files)
    /\ r_added' = Append(r_added, ReadOne(r_files[Len(r_added) + 1]))
    /\ UNCHANGED <<r_files, r_pdf_reader, r_max_size, r_pc, dvars, gvars, cvars, tvars, ovars, mvars, avars, xvars>>

\* the loop ends
ReadDone ==
    /\ r_pc = "loop"
    /\ Len(r_added) = Len(r_files)
    /\ r_pc' = "done"
    /\ UNCHANGED <<r_files, r_pdf_reader, r_max_size, r_added, dvars, gvars, cvars, tvars, ovars, mvars, avars, xvars>>

RNext == ReadNext \/ ReadDone

SpecRead == RInit /\ [][RNext]_vars

(***************************************************************************)
(* Properties of the file enumerator                                       *)
(***************************************************************************)

Done == d_pc = "done"

Positions == 1..Len(result)

LowerRel(p) == Lower(RelStr(p))

\* the files directly in the root that are named README.md, in any case
RootReadmeMds == {p \in tree : Len(p) = 1 /\ Lower(p[1]) = "readme.md"}

\* the files directly in the root whose name starts with "readme", in any case
RootReadmeLikes == {p \in tree : Len(p) = 1 /\ StartsWith(Lower(p[1]), "readme")}

\* C1: when a file named README.md (in any case) is directly in the root,
\* the list discover_files returns starts with such a file, whatever the
\* order in which the directories were iterated.
C1_ReadmeMdFirst ==
    (Done /\ RootReadmeMds # {}) =>
        (Len(result) >= 1 /\ result[1] \in RootReadmeMds)

\* README.md was yielded next to files that sort before it and came first.
C1_Witness ==
    /\ Done
    /\ {<<"README.md">>, <<"README">>, <<"a.py">>} \subseteq tree
    /\ result = <<<<"README.md">>, <<"a.py">>, <<"README">>>>

\* C2 as stated: any two returned files that are both not README.md are in
\* the order of their lower-cased relative paths, and only in that order.
C2_Original ==
    Done =>
        \A i, j \in Positions :
            (i # j /\ Lower(Name(result[i])) # "readme.md"
                   /\ Lower(Name(result[j])) # "readme.md")
            => ((i < j) <=> StrLess(LowerRel(result[i]), LowerRel(result[j])))

\* the position of the promoted readme file, 0 when the root holds none
PromotedAt == IF RootReadmeLikes # {} THEN 1 ELSE 0

Unpromoted == (PromotedAt + 1)..Len(result)

\* C2 amended: of two returned files that are both not the promoted readme
\* file, the one with the smaller lower-cased relative path comes first
\* (files whose lower-cased paths are equal come in iteration order).
C2_SortedAfterPromoted ==
    Done =>
        \A i, j \in Unpromoted :
            StrLess(LowerRel(result[i]), LowerRel(result[j])) => i < j

\* README.txt was promoted for want of a README.md, ahead of a.py and B.py.
C2_Witness ==
    /\ Done
    /\ result = <<<<"README.txt">>, <<"a.py">>, <<"B.py">>>>

\* result[i] is at its case-insensitive sorted position among the positions among
AtSortedPosition(i, among) ==
    \A j \in among :
        /\ StrLess(LowerRel(result[j]), LowerRel(result[i])) => j < i
        /\ StrLess(LowerRel(result[i]), LowerRel(result[j])) => i < j

NotUnderExcluded(p) == \A k \in 1..(Len(p) - 1) : ~ShouldExcludeDir(p[k])

Occurrences(p) == Cardinality({i \in Positions : result[i] = p})

\* C4: every file that is not beneath an excluded directory and passes the
\* inclusion predicate is in the returned list exactly once.
C4_EveryMatchOnce ==
    Done =>
        \A p \in tree :
            (NotUnderExcluded(p) /\ IsTextFile(p)) => Occurrences(p) = 1

C6_SameListEveryOrder ==
    (Done /\ runs > 1) => result = prev_result

(***************************************************************************)
(* Properties of the document assembler                                    *)
(***************************************************************************)

Chunked == g_pc = "chunked"

\* C7: every chunk generate_chunked returns has at most max_chars
\* characters, except a chunk that is a header and one file whose
\* formatted block alone is larger than max_chars.
C7_ChunkWithinMax ==
    Chunked =>
        \A k \in 1..Len(chunks) :
            \/ Len(chunks[k]) <= max_chars
            \/ \E i \in 1..Len(g_files) :
                  /\ Len(FileMarkdown(g_files[i])) > max_chars
                  /\ \/ chunks[k] = HeaderWithSection \o "\n" \o FileMarkdown(g_files[i])
                     \/ chunks[k] = ContinuationHeader \o "\n" \o FileMarkdown(g_files[i])

\* chunk k without the header or continuation header it starts with
Body(k) ==
    IF k = 1 /\ StartsWith(chunks[k], HeaderWithSection)
    THEN SubSeq(chunks[k], Len(HeaderWithSection) + 1, Len(chunks[k]))
    ELSE IF StartsWith(chunks[k], ContinuationHeader)
    THEN SubSeq(chunks[k], Len(ContinuationHeader) + 1, Len(chunks[k]))
    ELSE chunks[k]

\* the formatted blocks of files i..j as they stand in a joined chunk
RECURSIVE Blocks(_, _)
Blocks(i, j) ==
    IF i > j THEN ""
    ELSE "\n" \o FormatFile(g_files[i]) \o "\n" \o Blocks(i + 1, j)

\* chunks k, k+1, ... hold, whole and in order, the blocks of files i, i+1, ...
RECURSIVE Tiles(_, _)
Tiles(k, i) ==
    IF k > Len(chunks) THEN i = Len(g_files) + 1
    ELSE \E j \in (i - 1)..Len(g_files) :
            Body(k) = Blocks(i, j) /\ Tiles(k + 1, j + 1)

RECURSIVE AllBodies(_)
AllBodies(k) == IF k > Len(chunks) THEN "" ELSE Body(k) \o AllBodies(k + 1)

\* C8: with the headers removed, the chunks hold the formatted blocks of
\* the added files, each whole, each once and in the order added, and read
\* in chunk order they are the file section of generate().
C8_BlocksWholeInOrder ==
    Chunked =>
        /\ Tiles(1, 1)
        /\ EndsWith(document, "\n\n## File Contents\n" \o AllBodies(1))

\* Three files went into three chunks.
C8_Witness ==
    /\ Chunked
    /\ Len(g_files) = 3
    /\ Len(chunks) = 3

\* C9: when max_chars is larger than the length of the document generate()
\* returns, generate_chunked returns one chunk, equal to that document.
C9_OneChunkEqualsDocument ==
    (Chunked /\ max_chars > Len(document)) => chunks = <<document>>

\* A document with tree, table of contents and three files, and a max_chars
\* that is near its length.
C9_Witness ==
    /\ Chunked
    /\ include_tree /\ g_tree # "" /\ include_toc
    /\ Len(g_files) = 3
    /\ max_chars > Len(document)
    /\ max_chars < Len(document) + 100

(***************************************************************************)
(* Properties of the scoped repository acquisition                         *)
(***************************************************************************)

\* C10: when a convert call on a remote source has ended, by a return or by
\* any exception, the temporary directory made for its clone is gone.
C10_TempReleasedOnEveryExit ==
    (c_pc \in {"returned", "raised"} /\ c_source = "url") => c_temp # "present"

(***************************************************************************)
(* Properties of main                                                      *)
(***************************************************************************)

MainReturned == m_exit # <<>>

\* C11: main returns 0 when the conversion succeeds, 1 when a ValueError
\* (reported as "Error: ...") or any other exception (reported as
\* "Unexpected error: ...") is raised during it, 130 when the user
\* interrupts it, and nothing else.
C11_ExitCodes ==
    MainReturned =>
        /\ Len(m_exit) = 1
        /\ m_exit[1].code \in {0, 1, 130}
        /\ m_exit[1].code = 0 <=> (c_pc = "returned" /\ m_exc = "none")
        /\ m_exit[1].code = 130 <=> m_exc = "KeyboardInterrupt"
        /\ m_exit[1].code = 1 <=> m_exc \in {"ValueError", "Exception"}
        /\ m_exc = "ValueError" => m_exit[1].report = "Error: "
        /\ m_exc = "Exception" => m_exit[1].report = "Unexpected error: "
        /\ c_pc = "raised" => m_exc = c_exc

\* main returned 130 for an interruption that left convert through __exit__
C11_Witness ==
    /\ MainReturned
    /\ m_exit[1].code = 130
    /\ c_pc = "raised"
    /\ c_cleanups = 1

(***************************************************************************)
(* Properties of the read loop                                             *)
(***************************************************************************)

ReadLoopDone == r_pc = "done"

IsPdfName(name) == Len(name) >= 4 /\ Lower(SubSeq(name, Len(name) - 3, Len(name))) = ".pdf"

TooLarge(f) == f.exists /\ f.is_file /\ f.stat_ok /\ r_max_size # <<>> /\ f.size > r_max_size[1]

TooLargeText(f) == "[File too large: " \o IntStr(f.size) \o " bytes]"

\* C12: with a maximum file size configured, every enumerated file whose
\* size exceeds it has the 'too large' placeholder as its content, PDF
\* files read with PDF handling enabled included.
C12_TooLargeGetsPlaceholder ==
    ReadLoopDone =>
        \A i \in 1..Len(r_files) :
            (i <= Len(r_added) /\ TooLarge(r_files[i])) =>
                r_added[i].content = TooLargeText(r_files[i])

Bracketed(text) ==
    Len(text) >= 2 /\ SubSeq(text, 1, 1) = "[" /\ SubSeq(text, Len(text), Len(text)) = "]"

\* the file cannot be read by the reader the loop hands it to
CannotBeRead(f) ==
    \/ ~f.exists
    \/ ~f.is_file
    \/ IF IsPdfName(f.name) /\ r_pdf_reader # "none"
       THEN r_pdf_reader = "no_docling" \/ f.pdf = "fails"
       ELSE f.read = "OSError" \/ (r_max_size # <<>> /\ ~f.stat_ok)

\* C15: the loop adds exactly one record per enumerated file, in
\* enumeration order, and the record of a file that cannot be read or
\* extracted has a bracketed placeholder as its content.
C15_OneRecordPerFile ==
    /\ Len(r_added) <= Len(r_files)
    /\ \A i \in 1..Len(r_added) :
          /\ r_added[i].relative_path = r_files[i].name
          /\ CannotBeRead(r_files[i]) => Bracketed(r_added[i].content)
    /\ ReadLoopDone => Len(r_added) = Len(r_files)

\* the loop went on after a file that vanished and one Docling failed on
C15_Witness ==
    /\ ReadLoopDone
    /\ Len(r_files) = 2
    /\ ~r_files[1].exists
    /\ r_files[2].name = "bad.pdf" /\ r_pdf_reader = "docling"
    /\ r_added[2].content = "[PDF extraction error: Failed to extract PDF content: not a PDF]"

(***************************************************************************)
(* Properties of the rendered tree                                         *)
(***************************************************************************)

EndsWithPdf(text) == Len(text) >= 4 /\ Lower(SubSeq(text, Len(text) - 3, Len(text))) = ".pdf"

\* C13: with PDF support disabled, no file with a .pdf extension, in any
\* case, is in the list discover_files returns or on a line of the tree,
\* wherever it is and whatever its base name.
C13_NoPdfWhenDisabled ==
    (Done /\ ~include_pdf) =>
        /\ \A i \in Positions : ~EndsWithPdf(result[i][Len(result[i])])
        /\ \A i \in 1..Len(tree_lines) : ~EndsWithPdf(tree_lines[i].text)

\* the paths of the file lines of the rendered tree
TreeFiles == {tree_lines[i].path : i \in {j \in 1..Len(tree_lines) : ~tree_lines[j].is_dir}}

\* the paths discover_files returned
ListedFiles == {result[i] : i \in Positions}

\* C17: with no depth limit, the files that have a line in the rendered
\* tree are the files of the list discover_files returns.
C17_TreeMatchesList ==
    (Done /\ max_depth = <<>>) => TreeFiles = ListedFiles

(***************************************************************************)
(* Properties of the rules                                                 *)
(***************************************************************************)

\* the directory name is excluded by the default set
DefaultExcludes(dir_name) ==
    \/ dir_name \in DEFAULT_EXCLUDE_DIRS
    \/ \E pattern \in DEFAULT_EXCLUDE_DIRS :
          /\ StartsWith(pattern, "*")
          /\ EndsWith(dir_name, SubSeq(pattern, 2, Len(pattern)))

\* the caller supplied directories to exclude
UserSuppliedExcludes == exclude_dirs # DEFAULT_EXCLUDE_DIRS

\* C14: in a run with user-supplied directories to exclude, these are added
\* to the defaults: no returned file is below a directory that the default
\* set excludes.
C14_DefaultsStillExcluded ==
    (Done /\ UserSuppliedExcludes) =>
        \A i \in Positions : \A j \in 1..(Len(result[i]) - 1) :
            ~DefaultExcludes(result[i][j])

(***************************************************************************)
(* Properties of _create_anchor                                            *)
(***************************************************************************)

\* C16: _create_anchor applied to a string it returned returns that string.
C16_AnchorIdempotent ==
    a_pc = "twice" => a_twice = a_once

\* a text that _create_anchor lower-cases, collapses and strips, anchored
\* twice
C16_Witness ==
    /\ a_pc = "twice"
    /\ a_text = ".B..a"
    /\ a_once = "b-a"

(***************************************************************************)
(* Properties of the converter's record of its output                      *)
(***************************************************************************)

ConvertEnded == c_pc \in {"returned", "raised"}

\* C18: once a convert call has ended, get_generated_files returns only
\* paths that this call wrote, and none when it was given no output path or
\* failed before it wrote.
C18_GeneratedFilesOfLastCall ==
    ConvertEnded =>
        \A i \in 1..Len(GetGeneratedFiles) : GetGeneratedFiles[i] \in c_written

ConvertToFileReturned == c_ret # NoReturn

\* C19: convert_to_file returns the path of the file it wrote, or, with
\* split_output, the list of the paths of the chunk files; every path it
\* returns is a file the call wrote.
C19_ReturnsWrittenPaths ==
    ConvertToFileReturned =>
        /\ \A i \in 1..Len(c_ret.paths) : c_ret.paths[i] \in c_written
        /\ c_ret.kind = (IF c_split THEN "list" ELSE "path")
        /\ c_split => {c_ret.paths[i] : i \in 1..Len(c_ret.paths)} = c_written

(***************************************************************************)
(* Properties of the first chunk                                           *)
(***************************************************************************)

\* C20: the first chunk generate_chunked returns starts with the full
\* header, and only the chunks after it start with the continuation
\* header.
C20_FirstChunkHasHeader ==
    Chunked =>
        /\ Len(chunks) >= 1
        /\ StartsWith(chunks[1], HeaderWithSection)
        /\ \A k \in 2..Len(chunks) : StartsWith(chunks[k], ContinuationHeader)

(***************************************************************************)
(* Properties of the chunks and the files they hold                        *)
(***************************************************************************)

\* chunk k ends with the formatted block of an added file
HoldsFileBlock(k) ==
    \E i \in 1..Len(g_files) : EndsWith(chunks[k], "\n" \o FormatFile(g_files[i]) \o "\n")

\* C21: every chunk generate_chunked returns holds at least one file block
\* and is no bare header or continuation header, unless no file was added:
\* then the one chunk returned is the bare header.
C21_NoChunkWithoutFile ==
    Chunked =>
        IF Len(g_files) = 0
        THEN chunks = <<Header \o "\n\n## File Contents\n">>
        ELSE /\ Len(chunks) >= 1
             /\ \A k \in 1..Len(chunks) :
                   /\ HoldsFileBlock(k)
                   /\ chunks[k] # Header \o "\n\n## File Contents\n"
                   /\ chunks[k] # ContinuationHeader

\* the first file did not fit beside the header, and the chunk that held
\* the header alone was not returned
C21_Witness ==
    /\ Chunked
    /\ Len(g_files) >= 2
    /\ Len(Header) + Len(FileMarkdown(g_files[1])) > max_chars
    /\ Len(chunks) >= 2
    /\ StartsWith(chunks[1], ContinuationHeader)

\* the formatted block of file i alone is larger than max_chars
Oversized(i) == Len(FormatFile(g_files[i])) > max_chars

\* C22: a file whose formatted block alone is larger than max_chars is
\* emitted whole in a chunk that holds the block of no other file.
C22_OversizedFileAlone ==
    Chunked =>
        \A i \in 1..Len(g_files) :
            Oversized(i) =>
                \E k \in 1..Len(chunks) : Body(k) = "\n" \o FormatFile(g_files[i]) \o "\n"

\* an oversized file between two files that fit, in three chunks
C22_Witness ==
    /\ Chunked
    /\ Len(g_files) = 3
    /\ ~Oversized(1) /\ Oversized(2) /\ ~Oversized(3)
    /\ Len(chunks) = 3

(***************************************************************************)
(* Properties of the connectors of the rendered tree                       *)
(***************************************************************************)

\* the directory a line's entry is in
ParentOf(line) == SubSeq(line.path, 1, Len(line.path) - 1)

\* the connector of a line: the four characters before the entry's name
ConnectorOf(line) == SubSeq(line.text, 4 * (Len(line.path) - 1) + 1, 4 * Len(line.path))

\* line i is the last line of an entry of its directory
LastDisplayedSibling(i) ==
    \A j \in (i + 1)..Len(tree_lines) :
        ~(Len(tree_lines[j].path) = Len(tree_lines[i].path)
          /\ ParentOf(tree_lines[j]) = ParentOf(tree_lines[i]))

\* C23: in the rendered tree, the last displayed sibling of every directory
\* has the corner connector and every displayed sibling before it the tee,
\* also when the directory holds files that are not displayed.
C23_LastSiblingHasCorner ==
    \A i \in 2..Len(tree_lines) :
        ConnectorOf(tree_lines[i]) = (IF LastDisplayedSibling(i) THEN Corner ELSE Tee)

(***************************************************************************)
(* Properties of the type indicator                                        *)
(***************************************************************************)

\* the block of the record starts with its heading and path lines followed
\* by the type indicator line
CarriesTypeLine(fc) ==
    StartsWith(FormatFile(fc),
               "### " \o fc.name \o "\n**Path:** " \o Backquote \o fc.relative_path \o Backquote
               \o "\n**Type:** PDF (extracted text)\n")

\* the loop handed the file to PDFReader.read_pdf_safe
ReadByPdfReader(f) == IsPdfName(f.name) /\ r_pdf_reader # "none"

\* C24: the block of a file carries the type indicator line exactly when
\* the content of the file was produced by the PDF reader; a file read by
\* the text reader never carries it.
C24_TypeLineIffPdfReader ==
    \A i \in 1..Len(r_added) :
        CarriesTypeLine(r_added[i]) <=> ReadByPdfReader(r_files[i])

(***************************************************************************)
(* Properties of _should_exclude_dir                                       *)
(***************************************************************************)

\* the pattern starts with "*" and what follows the "*" ends the name
SuffixPattern(pattern, name) ==
    /\ Len(pattern) >= 1 /\ SubSeq(pattern, 1, 1) = "*"
    /\ Len(name) >= Len(pattern) - 1
    /\ SubSeq(name, Len(name) - Len(pattern) + 2, Len(name)) = SubSeq(pattern, 2, Len(pattern))

\* the pattern ends with "*" and what precedes the "*" starts the name
PrefixPattern(pattern, name) ==
    /\ Len(pattern) >= 1 /\ SubSeq(pattern, Len(pattern), Len(pattern)) = "*"
    /\ Len(name) >= Len(pattern) - 1
    /\ SubSeq(name, 1, Len(pattern) - 1) = SubSeq(pattern, 1, Len(pattern) - 1)

\* the pattern has no "*" at its start or its end
NoEdgeStar(pattern) ==
    Len(pattern) = 0
    \/ (SubSeq(pattern, 1, 1) # "*" /\ SubSeq(pattern, Len(pattern), Len(pattern)) # "*")

\* C25: _should_exclude_dir(name) is true exactly when name is an entry of
\* the excluded set, or the set has a pattern that starts with "*" whose
\* remainder ends name, or one that ends with "*" whose remainder starts
\* name; when no pattern has a "*" at its start or end, only the entries
\* themselves are excluded.
C25_ExcludeExactPrefixSuffix ==
    x_pc = "tested" =>
        /\ x_excluded <=>
              \/ x_name \in exclude_dirs
              \/ \E pattern \in exclude_dirs :
                    SuffixPattern(pattern, x_name) \/ PrefixPattern(pattern, x_name)
        /\ (\A pattern \in exclude_dirs : NoEdgeStar(pattern)) =>
              (x_excluded <=> x_name \in exclude_dirs)

\* a name that a pattern ending with "*" excludes, beside a pattern with
\* "*" in the middle
C25_Witness ==
    /\ x_pc = "tested"
    /\ exclude_dirs = {"a*b", "tmp*"}
    /\ x_name = "tmp_x"
    /\ x_excluded

====
